---- MODULE Spec2Model ----
(***************************************************************************)
(* Project: SOLARIS bot (project_solaris_bot.py): the XP / clearance-level *)
(* store, the three event listeners and promote_user, as a state machine.  *)
(*                                                                         *)
(* The listeners are asyncio coroutines on one event loop: a handler runs  *)
(* without interruption from the point it is resumed to its next awaited   *)
(* platform call.  Each action below is one such run.  A platform call     *)
(* (add_roles, remove_roles, send, add_reaction) takes effect when the     *)
(* awaiting handler is resumed, or raises and ends the handler.            *)
(* Role tags are identified by their level (CLEARANCE_ROLES is 1:1).       *)
(***************************************************************************)
EXTENDS Integers, Sequences, FiniteSets, Bags, TLC

\* ------------------------------------------------------------- bounds
MaxEvents == 4      \* events handled in one behaviour of Spec
MaxTasks == 2       \* handlers suspended at an await at the same time
MaxPoints == 602    \* points a member collects in SpecActivity
MaxSyncLevel == 3   \* highest level and role tag used in SpecSync
Active == {1}       \* the members whose events the specifications follow

\* ------------------------------------------------- program constants
Members == {1, 2}
None == 0
CLEARANCE_ROLES == 0..10
XP_THRESHOLDS == <<0, 100, 300, 600, 1000, 1500, 2100, 2800, 3600, 4500, 5500>>

\* Guild configurations the bot may run in.
Catalogs == {CLEARANCE_ROLES, CLEARANCE_ROLES \ {0}}
ChannelSets == {{"announcements", "verification"}, {"verification"}}

\* Rows the users table may hold when the process starts (solaris.db is
\* kept between runs); NoRow is a member without a row.
NoRow == [row |-> FALSE, xp |-> 0, level |-> 0]
StartRecords ==
    { NoRow,
      [row |-> TRUE, xp |-> 99, level |-> 0],
      [row |-> TRUE, xp |-> 5499, level |-> 9] }

VARIABLES
    db,                       \* users table: member -> row
    roles,                    \* member.roles, as the set of levels held
    guildRoles,               \* guild.roles, as the set of levels that exist
    textChannels,             \* guild.text_channels, by name
    verification_message_id,  \* OnboardingCog.verification_message_id
    sent,                     \* verification messages posted so far: message
                              \* id -> member whose join posted it (None: an
                              \* earlier one)
    tasks,                    \* bag of handlers suspended at an await
    promoteCalls,             \* member -> promote_user calls made
    announced,                \* member -> promotion announcements sent
    verifications,            \* member -> verification promotions since the
                              \*           member's last join was stored
    joined,                   \* member -> a join stored the member's row
    failed,                   \* member -> a platform call raised
    lastSync,                 \* member -> target of the last completed
                              \*   promote_user run, -1 once roles changed
    commitLog,                \* the commits of the last step, in order
    event,                    \* the last step
    handled,                  \* member -> events handled (early returns apart)
    indexError                \* XP_THRESHOLDS was indexed out of range

vars == <<db, roles, guildRoles, textChannels, verification_message_id, sent,
          tasks, promoteCalls, announced, verifications, joined, failed,
          lastSync, commitLog, event, handled, indexError>>

guild == <<guildRoles, textChannels>>

\* ------------------------------------------------------------ helpers
Min(S) == CHOOSE x \in S : \A y \in S : x <= y

Row(xp, level) == [row |-> TRUE, xp |-> xp, level |-> level]

Commit(m, xp, level) == [m |-> m, xp |-> xp, level |-> level]

get_user_data(m) ==
    IF db[m].row THEN [xp |-> db[m].xp, level |-> db[m].level]
                 ELSE [xp |-> 0, level |-> 0]

\* update_user_data applied for each commit of cs, in order
RECURSIVE Stored(_, _)
Stored(d, cs) ==
    IF cs = <<>> THEN d
    ELSE Stored([d EXCEPT ![cs[1].m] = Row(cs[1].xp, cs[1].level)], Tail(cs))

RECURSIVE Total(_, _)
Total(f, S) ==
    IF S = {} THEN 0
    ELSE LET x == CHOOSE y \in S : TRUE IN f[x] + Total(f, S \ {x})

TasksOf(m) == {t \in BagToSet(tasks) : t.m = m}

Suspended == BagCardinality(tasks)

Task(h, m, n) ==
    [h |-> h, m |-> m, pc |-> "start", n |-> n, i |-> 0, msg |-> None,
     second |-> FALSE, issued |-> FALSE, before |-> {}, removed |-> {}]

\* ------------------------------------------------------- promote_user
\* The run of promote_user from a given point to its next await: the set
\* holding the suspended task, or {} when the function returned.
PromoteAnnounce(t) ==
    IF "announcements" \in textChannels
    THEN {[t EXCEPT !.pc = "announce"]}
    ELSE {}

\* mutant: add_roles is called whether or not the role was found
PromoteAddUnguarded(t) == {[t EXCEPT !.pc = "add", !.issued = TRUE]}

PromoteAdd(t) ==
    IF t.n \in CLEARANCE_ROLES /\ t.n \in guildRoles
    THEN {[t EXCEPT !.pc = "add", !.issued = TRUE]}
    ELSE PromoteAnnounce(t)

\* mutant: every other clearance role is removed, the higher ones too
RemoveTargetsAll(rs, from, n) ==
    {L \in from..10 : L # n /\ L \in guildRoles /\ L \in rs}

RemoveTargets(rs, from, n) ==
    {L \in from..(n - 1) : L \in CLEARANCE_ROLES /\ L \in guildRoles /\ L \in rs}

\* mutant: the loop over the lower levels is skipped
PromoteLoopSkipped(t, rs) == PromoteAdd(t)

PromoteLoop(t, rs) ==
    LET rem == RemoveTargets(rs, t.i, t.n) IN
    IF rem # {}
    THEN {[t EXCEPT !.pc = "remove", !.i = Min(rem), !.issued = TRUE,
                    !.removed = @ \cup {Min(rem)}]}
    ELSE PromoteAdd(t)

\* promote_user(member, new_level, guild) called by handler h
PromoteCall(h, m, n) ==
    PromoteLoop([Task(h, m, n) EXCEPT !.second = (lastSync[m] = n),
                                      !.before = roles[m]], roles[m])

\* lastSync after a step of a promote_user run for m that left rs
SyncAfter(m, n, next, rs) ==
    IF next = {} THEN n
    ELSE IF rs # roles[m] THEN -1
    ELSE lastSync[m]

\* ------------------------------------------------------ on_message
\* mutant: the level guard lets level 10 through
CanPromoteInclusive(level) == level <= 10

CanPromote(level) == level < 10

\* mutant: the threshold itself does not promote
ReachedThresholdStrict(xp, next_threshold) == xp > next_threshold

ReachedThreshold(xp, next_threshold) == xp >= next_threshold

\* mutant: the promotion is made but the new level is not stored
MessageOutcomeKeepsLevel(m) ==
    LET d == get_user_data(m)
        xp == d.xp + 1
        level == d.level
        first == <<Commit(m, xp, level)>>
    IN  IF level < 10 /\ xp >= XP_THRESHOLDS[level + 2]
        THEN [commits |-> first, promote |-> level + 1, error |-> FALSE]
        ELSE [commits |-> first, promote |-> -1, error |-> FALSE]

\* What one on_message does to the store, from its read of the row:
\* the commits it makes, the level it promotes to (-1: none) and whether
\* the XP_THRESHOLDS lookup raised IndexError.
MessageOutcome(m) ==
    LET d == get_user_data(m)
        xp == d.xp + 1
        level == d.level
        first == <<Commit(m, xp, level)>>
    IN  IF ~CanPromote(level)
        THEN [commits |-> first, promote |-> -1, error |-> FALSE]
        ELSE IF level + 2 \notin DOMAIN XP_THRESHOLDS
        THEN [commits |-> first, promote |-> -1, error |-> TRUE]
        ELSE IF ReachedThreshold(xp, XP_THRESHOLDS[level + 2])
        THEN [commits |-> Append(first, Commit(m, xp, level + 1)),
              promote |-> level + 1, error |-> FALSE]
        ELSE [commits |-> first, promote |-> -1, error |-> FALSE]

on_message(m, bot) ==
    /\ event' = [h |-> "msg", m |-> m, ok |-> ~bot]
    /\ IF bot
       THEN /\ commitLog' = <<>>
            /\ UNCHANGED <<db, roles, guild, verification_message_id, sent, tasks,
                           promoteCalls, announced, verifications, joined, failed,
                           lastSync, handled, indexError>>
       ELSE LET o == MessageOutcome(m)
                next == IF o.promote >= 0
                        THEN PromoteCall("msg", m, o.promote) ELSE {}
            IN  /\ db' = Stored(db, o.commits)
                /\ commitLog' = o.commits
                /\ indexError' = (indexError \/ o.error)
                /\ tasks' = tasks (+) SetToBag(next)
                /\ promoteCalls' = IF o.promote >= 0
                                   THEN [promoteCalls EXCEPT ![m] = @ + 1]
                                   ELSE promoteCalls
                /\ lastSync' = IF o.promote >= 0
                               THEN [lastSync EXCEPT
                                       ![m] = SyncAfter(m, o.promote, next, roles[m])]
                               ELSE lastSync
                /\ handled' = [handled EXCEPT ![m] = @ + 1]
                /\ UNCHANGED <<roles, guild, verification_message_id, sent,
                               announced, verifications, joined, failed>>

\* ---------------------------------------------- on_raw_reaction_add
IsVerificationReaction(mid, emoji, bot) ==
    /\ mid = verification_message_id
    /\ emoji = "check"
    /\ ~bot

\* mutant: a member at level 1 is promoted again
NeedsVerificationLoose(current_level) == current_level <= 1

NeedsVerification(current_level) == current_level = 0

on_raw_reaction_add(m, mid, emoji, bot) ==
    LET ok == IsVerificationReaction(mid, emoji, bot)
        d == get_user_data(m)
        promote == ok /\ NeedsVerification(d.level)
        next == IF promote THEN PromoteCall("react", m, 1) ELSE {}
    IN  /\ event' = [h |-> "react", m |-> m, ok |-> ok]
        /\ handled' = IF ok THEN [handled EXCEPT ![m] = @ + 1] ELSE handled
        /\ IF promote
           THEN /\ db' = [db EXCEPT ![m] = Row(0, 1)]
                /\ commitLog' = <<Commit(m, 0, 1)>>
                /\ tasks' = tasks (+) SetToBag(next)
                /\ promoteCalls' = [promoteCalls EXCEPT ![m] = @ + 1]
                /\ verifications' = [verifications EXCEPT ![m] = @ + 1]
                /\ lastSync' = [lastSync EXCEPT ![m] = SyncAfter(m, 1, next, roles[m])]
           ELSE /\ commitLog' = <<>>
                /\ UNCHANGED <<db, tasks, promoteCalls, verifications, lastSync>>
        /\ UNCHANGED <<roles, guild, verification_message_id, sent, announced,
                       joined, failed, indexError>>

\* --------------------------------------------------- on_member_join
\* update_user_data(member.id, 0, 0) and the await of member.send
\* mutant: the join stores the member as already verified
JoinStoreVerified(m) ==
    /\ db' = [db EXCEPT ![m] = Row(0, 1)]
    /\ commitLog' = <<Commit(m, 0, 1)>>
    /\ joined' = [joined EXCEPT ![m] = TRUE]
    /\ verifications' = [verifications EXCEPT ![m] = 0]

JoinStore(m) ==
    /\ db' = [db EXCEPT ![m] = Row(0, 0)]
    /\ commitLog' = <<Commit(m, 0, 0)>>
    /\ joined' = [joined EXCEPT ![m] = TRUE]
    /\ verifications' = [verifications EXCEPT ![m] = 0]

on_member_join(m) ==
    /\ event' = [h |-> "join", m |-> m, ok |-> TRUE]
    /\ handled' = [handled EXCEPT ![m] = @ + 1]
    /\ IF 0 \in guildRoles
       THEN /\ tasks' = tasks (+) SetToBag({[Task("join", m, 0) EXCEPT !.pc = "join_add"]})
            /\ commitLog' = <<>>
            /\ UNCHANGED <<db, joined, verifications>>
       ELSE /\ JoinStore(m)
            /\ tasks' = tasks (+) SetToBag({[Task("join", m, 0) EXCEPT !.pc = "join_dm"]})
    /\ UNCHANGED <<roles, guild, verification_message_id, sent, promoteCalls,
                   announced, failed, lastSync, indexError>>

\* member.add_roles(recruit_role) returned
JoinAddDone(t) ==
    /\ t.pc = "join_add"
    /\ roles' = [roles EXCEPT ![t.m] = @ \cup {0}]
    /\ lastSync' = [lastSync EXCEPT ![t.m] = IF 0 \in roles[t.m] THEN @ ELSE -1]
    /\ JoinStore(t.m)
    /\ tasks' = (tasks (-) SetToBag({t})) (+) SetToBag({[t EXCEPT !.pc = "join_dm"]})
    /\ UNCHANGED <<guild, verification_message_id, sent, promoteCalls, announced,
                   failed, handled, indexError>>

\* member.send(welcome_msg) returned, or raised discord.Forbidden
JoinDmDone(t) ==
    /\ t.pc = "join_dm"
    /\ tasks' = IF "verification" \in textChannels /\ verification_message_id = None
                THEN (tasks (-) SetToBag({t})) (+) SetToBag({[t EXCEPT !.pc = "join_send"]})
                ELSE tasks (-) SetToBag({t})
    /\ commitLog' = <<>>
    /\ UNCHANGED <<db, roles, guild, verification_message_id, sent, promoteCalls,
                   announced, verifications, joined, failed, lastSync, handled,
                   indexError>>

\* verification_channel.send(...) returned the new message
JoinSendDone(t) ==
    /\ t.pc = "join_send"
    /\ sent' = Append(sent, t.m)
    /\ tasks' = (tasks (-) SetToBag({t}))
                (+) SetToBag({[t EXCEPT !.pc = "join_react", !.msg = Len(sent) + 1]})
    /\ commitLog' = <<>>
    /\ UNCHANGED <<db, roles, guild, verification_message_id, promoteCalls,
                   announced, verifications, joined, failed, lastSync, handled,
                   indexError>>

\* msg.add_reaction returned; self.verification_message_id = msg.id
JoinReactDone(t) ==
    /\ t.pc = "join_react"
    /\ verification_message_id' = t.msg
    /\ tasks' = tasks (-) SetToBag({t})
    /\ commitLog' = <<>>
    /\ UNCHANGED <<db, roles, guild, sent, promoteCalls, announced, verifications,
                   joined, failed, lastSync, handled, indexError>>

\* ------------------------------------------- promote_user, resumed
\* member.remove_roles(role) returned: the loop goes on with the next level
RemoveDone(t) ==
    /\ t.pc = "remove"
    /\ LET rs == roles[t.m] \ {t.i}
           next == PromoteLoop([t EXCEPT !.i = t.i + 1], rs)
       IN  /\ roles' = [roles EXCEPT ![t.m] = rs]
           /\ tasks' = (tasks (-) SetToBag({t})) (+) SetToBag(next)
           /\ lastSync' = [lastSync EXCEPT ![t.m] = SyncAfter(t.m, t.n, next, rs)]
    /\ commitLog' = <<>>
    /\ UNCHANGED <<db, guild, verification_message_id, sent, promoteCalls,
                   announced, verifications, joined, failed, handled,
                   indexError>>

\* member.add_roles(new_role) returned
AddDone(t) ==
    /\ t.pc = "add"
    /\ LET rs == roles[t.m] \cup {t.n}
           next == PromoteAnnounce(t)
       IN  /\ roles' = [roles EXCEPT ![t.m] = rs]
           /\ tasks' = (tasks (-) SetToBag({t})) (+) SetToBag(next)
           /\ lastSync' = [lastSync EXCEPT ![t.m] = SyncAfter(t.m, t.n, next, rs)]
    /\ commitLog' = <<>>
    /\ UNCHANGED <<db, guild, verification_message_id, sent, promoteCalls,
                   announced, verifications, joined, failed, handled,
                   indexError>>

\* announcements_channel.send(...) returned; promote_user returns
AnnounceDone(t) ==
    /\ t.pc = "announce"
    /\ announced' = [announced EXCEPT ![t.m] = @ + 1]
    /\ tasks' = tasks (-) SetToBag({t})
    /\ lastSync' = [lastSync EXCEPT ![t.m] = t.n]
    /\ commitLog' = <<>>
    /\ UNCHANGED <<db, roles, guild, verification_message_id, sent, promoteCalls,
                   verifications, joined, failed, handled, indexError>>

\* The awaited platform call raised (discord.HTTPException): the handler
\* ends there, the call has had no effect.
CallFailed(t) ==
    /\ failed' = [failed EXCEPT ![t.m] = TRUE]
    /\ tasks' = tasks (-) SetToBag({t})
    /\ commitLog' = <<>>
    /\ UNCHANGED <<db, roles, guild, verification_message_id, sent, promoteCalls,
                   announced, verifications, joined, lastSync, handled,
                   indexError>>

Resumed(t) == event' = [h |-> t.pc, m |-> t.m, ok |-> TRUE]

Raise(t) ==
    /\ event' = [h |-> "raise", m |-> t.m, ok |-> FALSE]
    /\ CallFailed(t)

\* ------------------------------------------------------ specification
\* The process has just started or is running with no handler in flight;
\* the members of S have rows left by earlier runs, or none.
InitFor(S) ==
    /\ guildRoles \in Catalogs
    /\ textChannels \in ChannelSets
    /\ db \in [Members -> StartRecords]
    /\ \A m \in Members \ S : db[m] = NoRow
    /\ roles = [m \in Members |->
                   IF db[m].row THEN {db[m].level} \cap guildRoles ELSE {}]
    /\ verification_message_id \in
          IF "verification" \in textChannels THEN {None, 1} ELSE {None}
    /\ sent = IF verification_message_id = None THEN <<>> ELSE <<None>>
    /\ tasks = EmptyBag
    /\ promoteCalls = [m \in Members |-> 0]
    /\ announced = [m \in Members |-> 0]
    /\ verifications = [m \in Members |-> 0]
    /\ joined = [m \in Members |-> db[m].row]
    /\ failed = [m \in Members |-> FALSE]
    /\ lastSync = [m \in Members |-> -1]
    /\ commitLog = <<>>
    /\ event = [h |-> "start", m |-> 0, ok |-> TRUE]
    /\ handled = [m \in Members |-> 0]
    /\ indexError = FALSE

\* The event loop takes on a new event
Admit == Total(handled, Members) < MaxEvents /\ Suspended < MaxTasks

MemberJoined == \E m \in Active : Admit /\ on_member_join(m)

VerificationReacted ==
    \E m \in Active, mid \in 0..Len(sent), emoji \in {"check", "other"}, bot \in BOOLEAN :
        Admit /\ on_raw_reaction_add(m, mid, emoji, bot)

ActivityMessage == \E m \in Active, bot \in BOOLEAN : Admit /\ on_message(m, bot)

JoinAdded == \E t \in BagToSet(tasks) : Resumed(t) /\ JoinAddDone(t)
JoinWelcomed == \E t \in BagToSet(tasks) : Resumed(t) /\ JoinDmDone(t)
JoinPosted == \E t \in BagToSet(tasks) : Resumed(t) /\ JoinSendDone(t)
JoinReacted == \E t \in BagToSet(tasks) : Resumed(t) /\ JoinReactDone(t)
RoleRemoved == \E t \in BagToSet(tasks) : Resumed(t) /\ RemoveDone(t)
RoleAdded == \E t \in BagToSet(tasks) : Resumed(t) /\ AddDone(t)
Announced == \E t \in BagToSet(tasks) : Resumed(t) /\ AnnounceDone(t)
CallRaised == \E t \in BagToSet(tasks) : Raise(t)

Continue ==
    \/ JoinAdded
    \/ JoinWelcomed
    \/ JoinPosted
    \/ JoinReacted
    \/ RoleRemoved
    \/ RoleAdded
    \/ Announced
    \/ CallRaised

Init == InitFor(Active)

Next ==
    \/ MemberJoined
    \/ VerificationReacted
    \/ ActivityMessage
    \/ Continue

Spec == Init /\ [][Next]_vars

\* Activity only: every member starts without a row and the one event
\* kind is the activity message.
InitActivity == InitFor({})

AdmitMessage(m) == get_user_data(m).xp < MaxPoints /\ Suspended < MaxTasks

ActivityOnly ==
    \E m \in Active, bot \in BOOLEAN : AdmitMessage(m) /\ on_message(m, bot)

NextActivity ==
    \/ ActivityOnly
    \/ RoleRemoved
    \/ RoleAdded
    \/ Announced
    \/ CallRaised

SpecActivity == InitActivity /\ [][NextActivity]_vars

\* ------------------------------------------------------------- claims
Max(S) == CHOOSE x \in S : \A y \in S : y <= x

\* the largest L such that xp >= XP_THRESHOLDS[L]
LevelOf(xp) == Max({L \in 0..10 : xp >= XP_THRESHOLDS[L + 1]})

Xp(m) == get_user_data(m).xp

Level(m) == get_user_data(m).level

\* promote_user runs of m suspended at an await
PromoteRuns(m) == {t \in TasksOf(m) : t.pc \in {"remove", "add", "announce"}}

InFlight(m) == Total([t \in PromoteRuns(m) |-> CopiesIn(t, tasks)], PromoteRuns(m))

\* every completed promote_user run has announced once, none twice
Balanced(m) ==
    /\ announced[m] <= promoteCalls[m]
    /\ ("announcements" \in textChannels /\ ~failed[m])
          => announced[m] + InFlight(m) = promoteCalls[m]

\* C1: from a fresh record and under activity messages only, after every
\* on_message the stored level is the largest L with points >= XP_THRESHOLDS[L].
C1_LevelMatchesPoints == \A m \in Members : Level(m) = LevelOf(Xp(m))

\* C1 witness: a member who started without a row has crossed two
\* thresholds by activity messages.
C1_Witness ==
    \E m \in Members :
        /\ event = [h |-> "msg", m |-> m, ok |-> TRUE]
        /\ Xp(m) = XP_THRESHOLDS[3]
        /\ Level(m) = 2

\* C6: N on_message handlers of one member, in any interleaving with the
\* promote_user runs they started, add exactly N points, and every threshold
\* crossing makes exactly one promote_user call and one announcement.
C6_NoLostIncrement ==
    \A m \in Members :
        /\ Xp(m) = handled[m]
        /\ promoteCalls[m] = LevelOf(Xp(m))
        /\ Balanced(m)

\* C6 witness: the promote_user run of the first crossing is still suspended
\* when a later message crosses the second threshold and starts another.
C6_Witness ==
    \E m \in Members :
        /\ event = [h |-> "msg", m |-> m, ok |-> TRUE]
        /\ InFlight(m) = 2
        /\ promoteCalls[m] = 2
        /\ Xp(m) = handled[m]

\* C2: every commit to the store, the intermediate commits of a handler
\* included, holds a level that is the largest L with points >= threshold(L).
C2_EveryCommitConsistent ==
    \A k \in DOMAIN commitLog : commitLog[k].level = LevelOf(commitLog[k].xp)

\* C3: no step of any handler lowers a member's stored points.
C3_PointsNeverDecrease == [][\A m \in Members : Xp(m)' >= Xp(m)]_vars

\* C4: no step of any handler, a repeated join included, lowers a member's
\* stored level, and the level stays within 0..10.
C4_LevelNeverDecreases ==
    [][\A m \in Members : Level(m)' >= Level(m) /\ Level(m)' \in 0..10]_vars

\* C5: a verification reaction promotes from level 0 to level 1 and is a
\* no-op at any other level; between two stored joins of a member the
\* reactions make at most one promotion, with one promote_user call, and
\* each promote_user run that no platform failure cut short announces once.
C5_VerificationOneShot ==
    [][\A m \in Members :
          /\ event' = [h |-> "react", m |-> m, ok |-> TRUE] =>
                IF Level(m) = 0
                THEN /\ db'[m] = Row(0, 1)
                     /\ promoteCalls'[m] = promoteCalls[m] + 1
                     /\ verifications'[m] = verifications[m] + 1
                ELSE UNCHANGED <<db, roles, tasks, promoteCalls, announced,
                                 verifications>>
          /\ verifications'[m] <= 1
          /\ Balanced(m)']_vars

\* C5 witness: a second verification reaction of a member arrived while the
\* promote_user run of the first was still suspended, and did nothing.
C5_Witness ==
    \E m \in Members :
        /\ event = [h |-> "react", m |-> m, ok |-> TRUE]
        /\ commitLog = <<>>
        /\ verifications[m] = 1
        /\ promoteCalls[m] = 1
        /\ \E t \in PromoteRuns(m) : t.h = "react"

\* C7: a step changes a member's stored level exactly when it makes one
\* promote_user call for the member, and every such call announces once.
C7_OneSyncPerLevelChange ==
    [][\A m \in Members :
          /\ promoteCalls'[m] =
                IF Level(m)' # Level(m) THEN promoteCalls[m] + 1 ELSE promoteCalls[m]
          /\ Balanced(m)']_vars

\* C8: a joined member with no handler in progress, in a guild that has
\* every clearance role and with no platform call failed, holds exactly the
\* role tag of the stored level.
C8_ExactlyOneRole ==
    \A m \in Members :
        (/\ joined[m]
         /\ TasksOf(m) = {}
         /\ ~failed[m]
         /\ guildRoles = CLEARANCE_ROLES)
        => roles[m] = {Level(m)}

\* C9: a promote_user run started on the role state a completed run with
\* the same target left issues no remove-role and no add-role command.
C9_SecondRunIssuesNothing ==
    \A t \in BagToSet(tasks) : t.second => ~t.issued

\* C10: an activity message of a member at level 10 adds one point and
\* changes nothing else: level, roles, promote_user calls and announcements
\* stay, and XP_THRESHOLDS is never indexed past its last entry.
C10_TopLevelOnlyGainsPoints ==
    [][\A m \in Members :
          /\ (event' = [h |-> "msg", m |-> m, ok |-> TRUE] /\ Level(m) = 10) =>
                /\ Xp(m)' = Xp(m) + 1
                /\ Level(m)' = 10
                /\ UNCHANGED <<roles, tasks, promoteCalls, announced>>
          /\ ~indexError']_vars

\* C10 witness: a member at level 10 has sent a further message.
C10_Witness ==
    \E m \in Members :
        /\ event = [h |-> "msg", m |-> m, ok |-> TRUE]
        /\ Level(m) = 10
        /\ Xp(m) > XP_THRESHOLDS[11]
        /\ promoteCalls[m] = 1

\* ------------------------------------------- promote_user on its own
\* promote_user called directly, one run of a member at a time, on any role
\* set the member may hold on the platform.
SyncLevels == 0..MaxSyncLevel

SyncCatalogs ==
    {CLEARANCE_ROLES, CLEARANCE_ROLES \ {0}, CLEARANCE_ROLES \ {1}}

InitSync ==
    /\ guildRoles \in SyncCatalogs
    /\ textChannels \in ChannelSets
    /\ db = [m \in Members |-> NoRow]
    /\ roles \in [Members -> SUBSET SyncLevels]
    /\ \A m \in Members : roles[m] \subseteq guildRoles
    /\ \A m \in Members \ Active : roles[m] = {}
    /\ verification_message_id = None
    /\ sent = <<>>
    /\ tasks = EmptyBag
    /\ promoteCalls = [m \in Members |-> 0]
    /\ announced = [m \in Members |-> 0]
    /\ verifications = [m \in Members |-> 0]
    /\ joined = [m \in Members |-> FALSE]
    /\ failed = [m \in Members |-> FALSE]
    /\ lastSync = [m \in Members |-> -1]
    /\ commitLog = <<>>
    /\ event = [h |-> "start", m |-> 0, ok |-> TRUE]
    /\ handled = [m \in Members |-> 0]
    /\ indexError = FALSE

\* await promote_user(member, n, guild), by a caller h that touches nothing else
PromoteDirect(h, m, n) ==
    LET next == PromoteCall(h, m, n) IN
    /\ event' = [h |-> h, m |-> m, ok |-> TRUE]
    /\ handled' = [handled EXCEPT ![m] = @ + 1]
    /\ tasks' = tasks (+) SetToBag(next)
    /\ promoteCalls' = [promoteCalls EXCEPT ![m] = @ + 1]
    /\ lastSync' = [lastSync EXCEPT ![m] = SyncAfter(m, n, next, roles[m])]
    /\ commitLog' = <<>>
    /\ UNCHANGED <<db, roles, guild, verification_message_id, sent, announced,
                   verifications, joined, failed, indexError>>

SyncCalled ==
    \E m \in Active, n \in SyncLevels :
        /\ Total(handled, Members) < MaxEvents
        /\ TasksOf(m) = {}
        /\ PromoteDirect("sync", m, n)

NextSync ==
    \/ SyncCalled
    \/ RoleRemoved
    \/ RoleAdded
    \/ Announced
    \/ CallRaised

SpecSync == InitSync /\ [][NextSync]_vars

\* the step resumes t and t's handler returns
Returns(t) ==
    /\ event' = [h |-> t.pc, m |-> t.m, ok |-> TRUE]
    /\ tasks' = tasks (-) SetToBag({t})

\* the awaited call of t raises
Raises(t) ==
    /\ event' = [h |-> "raise", m |-> t.m, ok |-> FALSE]
    /\ tasks' = tasks (-) SetToBag({t})

Below(n) == 0..(n - 1)

\* C11: with every role in the catalog, a promote_user run for target n that
\* nothing interleaves with issues remove_roles for exactly the tags held
\* below n, and returns with those gone, tag n held and every tag held at or
\* above n still held.
C11_RemovesBelowAddsTarget ==
    [][\A t \in BagToSet(tasks) :
          (Returns(t) /\ guildRoles = CLEARANCE_ROLES) =>
             /\ t.removed = t.before \cap Below(t.n)
             /\ roles'[t.m] = (t.before \ Below(t.n)) \cup {t.n}]_vars

\* C11 witness: a run for target 2 has removed tags 0 and 1 and added tag 2
\* while the member keeps tag 3.
C11_Witness ==
    \E t \in BagToSet(tasks) :
        /\ t.pc = "announce"
        /\ t.n = 2
        /\ t.before = {0, 1, 3}
        /\ t.removed = {0, 1}
        /\ roles[t.m] = {2, 3}
        /\ guildRoles = CLEARANCE_ROLES

\* ---------------------------------- rows carried over in solaris.db
\* The users table outlives the process (CREATE TABLE IF NOT EXISTS) and
\* XP_THRESHOLDS is a list to adjust: a row written under higher thresholds
\* holds points that meet several of the present ones.
CarriedRecords ==
    {[row |-> TRUE, xp |-> 298, level |-> 0],
     [row |-> TRUE, xp |-> 649, level |-> 0],
     [row |-> TRUE, xp |-> 649, level |-> 3]}

InitRows ==
    /\ guildRoles \in Catalogs
    /\ textChannels \in ChannelSets
    /\ db \in [Members -> CarriedRecords \cup {NoRow}]
    /\ \A m \in Active : db[m] \in CarriedRecords
    /\ \A m \in Members \ Active : db[m] = NoRow
    /\ roles = [m \in Members |->
                   IF db[m].row THEN {db[m].level} \cap guildRoles ELSE {}]
    /\ verification_message_id = None
    /\ sent = <<>>
    /\ tasks = EmptyBag
    /\ promoteCalls = [m \in Members |-> 0]
    /\ announced = [m \in Members |-> 0]
    /\ verifications = [m \in Members |-> 0]
    /\ joined = [m \in Members |-> db[m].row]
    /\ failed = [m \in Members |-> FALSE]
    /\ lastSync = [m \in Members |-> -1]
    /\ commitLog = <<>>
    /\ event = [h |-> "start", m |-> 0, ok |-> TRUE]
    /\ handled = [m \in Members |-> 0]
    /\ indexError = FALSE

NextRows ==
    \/ ActivityMessage
    \/ RoleRemoved
    \/ RoleAdded
    \/ Announced
    \/ CallRaised

SpecRows == InitRows /\ [][NextRows]_vars

\* the step is on_message handling a message of m, a member and not a bot
MessageHandled(m) ==
    /\ event' = [h |-> "msg", m |-> m, ok |-> TRUE]
    /\ handled'[m] = handled[m] + 1

InitPair ==
    /\ InitFor(Members)
    /\ \A m \in Members : db[m] = NoRow
    /\ verification_message_id = None

\* on_member_join handlers of m suspended at an await
JoinRuns(m) == {t \in TasksOf(m) : t.h = "join"}

FirstJoin ==
    \E m \in Members :
        Admit /\ ~joined[m] /\ JoinRuns(m) = {} /\ on_member_join(m)

OwnReaction ==
    \E m \in Members, mid \in 1..Len(sent) :
        /\ Admit
        /\ sent[mid] = m
        /\ on_raw_reaction_add(m, mid, "check", FALSE)

AnyMessage == \E m \in Members : Admit /\ on_message(m, FALSE)

NextPair ==
    \/ FirstJoin
    \/ OwnReaction
    \/ AnyMessage
    \/ JoinAdded
    \/ JoinWelcomed
    \/ JoinPosted
    \/ JoinReacted
    \/ RoleRemoved
    \/ RoleAdded
    \/ Announced
    \/ CallRaised

SpecPair == InitPair /\ [][NextPair]_vars

\* the step is on_raw_reaction_add handling a reaction of m
ReactionStep(m) == event'.h = "react" /\ event'.m = m

\* the join of m posted the verification message and returned, and no
\* platform call made for m has raised
JoinReturned(m) ==
    /\ \E mid \in 1..Len(sent) : sent[mid] = m
    /\ JoinRuns(m) = {}
    /\ ~failed[m]

\* C13: a step of a handler of member a changes neither the row nor the
\* roles of another member b, and b's events end as they do when a has no
\* events: b, at level 0, reacting to the verification message that b's own
\* completed join posted, is promoted to level 1.
C13_MembersIndependent ==
    [][\A a, b \in Members :
          a # b =>
             /\ event'.m = a => (db'[b] = db[b] /\ roles'[b] = roles[b])
             /\ (ReactionStep(b) /\ JoinReturned(b) /\ Level(b) = 0) =>
                    db'[b].level = 1]_vars

\* ------------------------------------------------- an empty table
\* The events of Spec, on a users table with no rows.
InitFresh ==
    /\ InitFor(Active)
    /\ \A m \in Members : db[m] = NoRow

SpecFresh == InitFresh /\ [][Next]_vars

\* the one event handled for m so far is a join, and its handler has returned
\* with no platform call having raised
OnlyJoined(m) ==
    /\ joined[m]
    /\ handled[m] = 1
    /\ TasksOf(m) = {}
    /\ ~failed[m]

\* C14: after the join of a member who had no row, with no other event of
\* that member and the level-0 role in the catalog, the stored row is
\* (points 0, level 0), the member holds the level-0 tag and nothing else,
\* no promote_user run was made (so no role removed) and no promotion
\* announced.
C14_JoinStartsAtLevelZero ==
    \A m \in Members :
        (OnlyJoined(m) /\ 0 \in guildRoles) =>
            /\ db[m] = Row(0, 0)
            /\ roles[m] = {0}
            /\ promoteCalls[m] = 0
            /\ announced[m] = 0

\* C14 witness: a join of a new member has returned after posting the
\* verification message.
C14_Witness ==
    \E m \in Active :
        /\ OnlyJoined(m)
        /\ 0 \in guildRoles
        /\ event = [h |-> "join_react", m |-> m, ok |-> TRUE]
        /\ verification_message_id # None
        /\ roles[m] = {0}

\* the step takes on a new event of m, or resumes an on_member_join handler
\* of m
OtherHandlerStep(m) ==
    \/ handled'[m] = handled[m] + 1
    \/ \E t \in JoinRuns(m) : Resumed(t)

\* C15: from the first store access of an event of m until the promote_user
\* call of that event completes, no step of another handler of m executes:
\* while a promote_user run of m is suspended, no event of m is taken on and
\* no join handler of m resumes.
C15_PerMemberCriticalSection ==
    [][\A m \in Members :
          PromoteRuns(m) # {} => ~OtherHandlerStep(m)]_vars

\* member.add_roles(new_role), awaited by t, raises
AddFailed(t) == t.pc = "add" /\ Raises(t)

\* Once a run has issued add_roles it holds no lower tag and issues no
\* remove_roles any more; a step gives a member no tag but the target of a
\* run of that member.
RemovesPrecedeAdd ==
    /\ \A t \in BagToSet(tasks) :
          t.pc \in {"add", "announce"} =>
             /\ roles[t.m] \cap Below(t.n) = {}
             /\ {u \in BagToSet(tasks') : u.m = t.m /\ u.pc = "remove"} = {}
    /\ \A m \in Members :
          roles'[m] \ roles[m] \subseteq {t.n : t \in TasksOf(m)}

C18_MissingRoleNotAFailure ==
    [][\A t \in BagToSet(tasks) :
          /\ t.pc = "remove" => t.i \in guildRoles
          /\ t.pc = "add" => t.n \in guildRoles
          /\ (Returns(t) /\ guildRoles # CLEARANCE_ROLES) =>
                /\ roles'[t.m] =
                      (t.before \ Below(t.n)) \cup ({t.n} \cap guildRoles)
                /\ db' = db
                /\ failed' = failed
                /\ indexError' = indexError]_vars

\* C18 witness: the role of target 1 does not exist; the run has removed
\* tag 0, skipped add_roles and awaits the announcement.
C18_Witness ==
    \E t \in BagToSet(tasks) :
        /\ t.n = 1
        /\ 1 \notin guildRoles
        /\ t.before = {0, 2}
        /\ t.removed = {0}
        /\ t.pc = "announce"
        /\ roles[t.m] = {2}

\* ------------------------------------------ retry of a failed sync
\* The events of Spec, with a caller that answers a platform call raising
\* inside the promote_user run of a verification or activity event by
\* running promote_user again, alone, with the stored level, while no other
\* handler of the member is in flight.
SyncRetried ==
    \E t \in BagToSet(tasks) :
        LET m == t.m
            next == PromoteCall("retry", m, Level(m))
        IN  /\ t \in PromoteRuns(m)
            /\ t.h \in {"react", "msg"}
            /\ TasksOf(m) = {t}
            /\ event' = [h |-> "retry", m |-> m, ok |-> TRUE]
            /\ failed' = [failed EXCEPT ![m] = TRUE]
            /\ tasks' = (tasks (-) SetToBag({t})) (+) SetToBag(next)
            /\ lastSync' = [lastSync EXCEPT
                              ![m] = SyncAfter(m, Level(m), next, roles[m])]
            /\ commitLog' = <<>>
            /\ UNCHANGED <<db, roles, guild, verification_message_id, sent,
                           promoteCalls, announced, verifications, joined,
                           handled, indexError>>

NextRetry ==
    \/ Next
    \/ SyncRetried

SpecRetry == Init /\ [][NextRetry]_vars

\* the step is a verification or an activity event of m that changes the
\* stored level
LevelChanged(m) ==
    /\ event'.h \in {"react", "msg"}
    /\ event'.m = m
    /\ db'[m].level # Level(m)

\* the new level is stored in the step that starts the promote_user run for
\* it, and that step changes no role
CommitBeforeRoles ==
    \A m \in Members :
        LevelChanged(m) =>
            /\ roles' = roles
            /\ \A t \in BagToSet(tasks') \ BagToSet(tasks) : t.n = db'[m].level

\* a platform call raising, or the retry that answers it, leaves the users
\* table as it is
NoRollback ==
    \A t \in BagToSet(tasks) :
        (Raises(t) \/ event'.h = "retry") => db' = db

\* at most one announcement per promote_user call of an event, retries
\* included
AnnouncedOncePerTransition ==
    \A m \in Members : announced'[m] <= promoteCalls'[m]

\* a retry that returns with the stored level still its target and nothing
\* else of the member in flight leaves exactly the tag of the stored level
RetryRestoresRoles ==
    \A t \in BagToSet(tasks) :
        (/\ Returns(t)
         /\ t.h = "retry"
         /\ TasksOf(t.m) = {t}
         /\ guildRoles = CLEARANCE_ROLES
         /\ Level(t.m) = t.n) => roles'[t.m] = {t.n}

\* C17: a verification or activity event stores the new level before the
\* first role mutation of its synchronization; a failing role call rolls
\* nothing back and awards no further point, no transition is announced more
\* than once, and running promote_user again with the stored level leaves
\* the member with exactly the tag of that level.
C17_RetryAloneRestoresRoles ==
    [][/\ CommitBeforeRoles
       /\ NoRollback
       /\ AnnouncedOncePerTransition
       /\ RetryRestoresRoles]_vars

\* C19: at most one verification message is ever posted, also by joins whose
\* handlers interleave at their awaits, and verification_message_id, once
\* set, never changes.
C19_VerificationPostedOnce ==
    [][/\ Len(sent') <= 1
       /\ verification_message_id # None =>
             verification_message_id' = verification_message_id]_vars

====
